---- MODULE Spec2Model ----
(***************************************************************************)
(* A model of src/db.c: main(argc, argv) issues four printf calls that     *)
(* report the sizes of int, pointer to int, uint8_t and uint32_t,          *)
(* discards every printf result, and returns 0.                            *)
(*                                                                         *)
(* Two executions of main are modelled side by side (Runs).  They share    *)
(* the platform (the data model the program was compiled for) and the      *)
(* behaviour of the output facility (which of the writes fail), and each   *)
(* has its own argument vector, so that statements comparing two runs      *)
(* that differ only in their arguments are statements about states.        *)
(***************************************************************************)
EXTENDS Integers, Sequences, FiniteSets, TLC

\* Most arguments that follow the program name in an argument vector.
MaxExtraArgs == 3

\* The value of `return 0;`.
EXIT_SUCCESS == 0

Runs == {1, 2}

\* Data models a hosted C implementation providing uint8_t and uint32_t can
\* have (uint8_t exists only where a byte has 8 bits).
DataModels == {"LP32", "ILP32", "LLP64", "LP64", "ILP64"}

ArgPool == <<"a", "b", "c">>

ExtraArg(i) ==
    ArgPool[((i - 1) % Len(ArgPool)) + 1]

\* argv[0] is the program name; an empty vector (argc = 0) is possible too.
ArgVectors ==
    {<<>>} \cup
    {<<"prog">> \o [i \in 1..n |-> ExtraArg(i)] : n \in 0..MaxExtraArgs}

Environments == {<<>>, <<"HOME=/root">>}

StdinContents == {<<>>, <<"x\n">>}

FileSystems == {[path \in {"db.txt"} |-> "data"]}

VARIABLES
    dataModel,   \* the data model of the platform the program was built for
    failing,     \* the source lines whose write the output facility fails
    environ,     \* the environment variables of the process
    stdin,       \* what is waiting on standard input
    files,       \* the file system
    argc,        \* argc[r]: main's first parameter in run r
    argv,        \* argv[r]: main's second parameter in run r
    pc,          \* pc[r]: the line run r executes next, or "exited"
    stdout,      \* stdout[r]: what run r has put on standard output
    trace,       \* trace[r]: the calls run r has made, in order
    exitStatus   \* exitStatus[r]: <<>> while running, <<status>> once exited

vars ==
    <<dataModel, failing, environ, stdin, files, argc, argv, pc, stdout,
      trace, exitStatus>>

\* The lines of main that hold a printf call, in source order.
PrintfLines == <<"L8", "L9", "L10", "L11">>

\* sizeof(T) as the compiler of data model dm evaluates it.
Sizeof(dm, type) ==
    CASE type = "int" ->
            (CASE dm = "LP32" -> 2
               [] dm = "ILP64" -> 8
               [] OTHER -> 4)
      [] type = "int*" ->
            (CASE dm \in {"LP32", "ILP32"} -> 4
               [] OTHER -> 8)
      [] type = "uint8_t" -> 1
      [] type = "uint32_t" -> 4

\* Faulty variant of Statement: the arguments of the first two calls are
\* exchanged, so each label is paired with the other type's size.
StatementSwappedArgs(line) ==
    CASE line = "L8" ->
            [before |-> "sizeof(int) = ", after |-> "\n", type |-> "int*"]
      [] line = "L9" ->
            [before |-> "sizeof(int*) = ", after |-> "\n", type |-> "int"]
      [] line = "L10" ->
            [before |-> "sizeof(uint8_t) = ", after |-> "\n",
             type |-> "uint8_t"]
      [] line = "L11" ->
            [before |-> "sizeof(uint32_t) = ", after |-> "\n",
             type |-> "uint32_t"]

\* Faulty variant of Statement: the last call passes sizeof(int) under the
\* uint32_t label.
StatementIntForUint32(line) ==
    CASE line = "L8" ->
            [before |-> "sizeof(int) = ", after |-> "\n", type |-> "int"]
      [] line = "L9" ->
            [before |-> "sizeof(int*) = ", after |-> "\n", type |-> "int*"]
      [] line = "L10" ->
            [before |-> "sizeof(uint8_t) = ", after |-> "\n",
             type |-> "uint8_t"]
      [] line = "L11" ->
            [before |-> "sizeof(uint32_t) = ", after |-> "\n",
             type |-> "int"]

\* The printf statement on each line: the text of the format string before
\* its %zu conversion, the text after it, and the type whose size is passed.
Statement(line) ==
    CASE line = "L8" ->
            [before |-> "sizeof(int) = ", after |-> "\n", type |-> "int"]
      [] line = "L9" ->
            [before |-> "sizeof(int*) = ", after |-> "\n", type |-> "int*"]
      [] line = "L10" ->
            [before |-> "sizeof(uint8_t) = ", after |-> "\n",
             type |-> "uint8_t"]
      [] line = "L11" ->
            [before |-> "sizeof(uint32_t) = ", after |-> "\n",
             type |-> "uint32_t"]

\* Faulty variant of NextLine: the second and third statements are
\* exchanged.
NextLineSwapped(line) ==
    CASE line = "L8" -> "L10"
      [] line = "L10" -> "L9"
      [] line = "L9" -> "L11"
      [] line = "L11" -> "L13"

\* Control passes from each statement to the one below it.
NextLine(line) ==
    CASE line = "L8" -> "L9"
      [] line = "L9" -> "L10"
      [] line = "L10" -> "L11"
      [] line = "L11" -> "L13"

Digits == <<"0", "1", "2", "3", "4", "5", "6", "7", "8", "9">>

RECURSIVE FormatZu(_)
\* The %zu conversion: an unsigned value in decimal, no padding.
FormatZu(n) ==
    IF n < 10
    THEN Digits[n + 1]
    ELSE FormatZu(n \div 10) \o Digits[(n % 10) + 1]

\* Faulty variant of Formatted: the format string lacks its newline.
FormattedNoNewline(line, dm) ==
    Statement(line).before
        \o FormatZu(Sizeof(dm, Statement(line).type))

\* The text one printf call of main produces.
Formatted(line, dm) ==
    Statement(line).before
        \o FormatZu(Sizeof(dm, Statement(line).type))
        \o Statement(line).after

\* Faulty variant of Printf: argc is passed in place of the size.
PrintfArgc(r, line) ==
    /\ pc[r] = line
    /\ stdout' =
         [stdout EXCEPT ![r] =
            IF line \in failing
            THEN @
            ELSE Append(@, Statement(line).before \o FormatZu(argc[r])
                             \o Statement(line).after)]
    /\ trace' =
         [trace EXCEPT ![r] =
            Append(@, [call |-> "printf", stream |-> "stdout", at |-> line])]
    /\ pc' = [pc EXCEPT ![r] = NextLine(line)]
    /\ UNCHANGED <<dataModel, failing, environ, stdin, files, argc, argv,
                   exitStatus>>

\* Faulty variant of Printf: the result of printf is tested, and a failed
\* write ends the run with status 1.
PrintfChecked(r, line) ==
    /\ pc[r] = line
    /\ stdout' =
         [stdout EXCEPT ![r] =
            IF line \in failing
            THEN @
            ELSE Append(@, Formatted(line, dataModel))]
    /\ trace' =
         [trace EXCEPT ![r] =
            Append(@, [call |-> "printf", stream |-> "stdout", at |-> line])]
    /\ pc' = [pc EXCEPT ![r] = IF line \in failing THEN "exited" ELSE NextLine(line)]
    /\ exitStatus' =
         [exitStatus EXCEPT ![r] = IF line \in failing THEN <<1>> ELSE @]
    /\ UNCHANGED <<dataModel, failing, environ, stdin, files, argc, argv>>

\* Faulty variant of Printf: the text is also appended to a file.
PrintfToFile(r, line) ==
    /\ pc[r] = line
    /\ stdout' =
         [stdout EXCEPT ![r] =
            IF line \in failing
            THEN @
            ELSE Append(@, Formatted(line, dataModel))]
    /\ files' = [files EXCEPT !["db.txt"] = Formatted(line, dataModel)]
    /\ trace' =
         [trace EXCEPT ![r] =
            Append(@, [call |-> "printf", stream |-> "stdout", at |-> line])]
    /\ pc' = [pc EXCEPT ![r] = NextLine(line)]
    /\ UNCHANGED <<dataModel, failing, environ, stdin, argc, argv,
                   exitStatus>>

\* One printf statement of run r.  The text reaches standard output unless
\* the output facility fails this write; the value printf returns is
\* discarded, so control continues with the next line either way.
Printf(r, line) ==
    /\ pc[r] = line
    /\ stdout' =
         [stdout EXCEPT ![r] =
            IF line \in failing
            THEN @
            ELSE Append(@, Formatted(line, dataModel))]
    /\ trace' =
         [trace EXCEPT ![r] =
            Append(@, [call |-> "printf", stream |-> "stdout", at |-> line])]
    /\ pc' = [pc EXCEPT ![r] = NextLine(line)]
    /\ UNCHANGED <<dataModel, failing, environ, stdin, files, argc, argv,
                   exitStatus>>

Line8(r) ==
    Printf(r, "L8")

Line9(r) ==
    Printf(r, "L9")

Line10(r) ==
    Printf(r, "L10")

Line11(r) ==
    Printf(r, "L11")

\* Faulty variant of Line13: the status is the argument count.
Line13ReturnsArgc(r) ==
    /\ pc[r] = "L13"
    /\ exitStatus' = [exitStatus EXCEPT ![r] = <<argc[r]>>]
    /\ trace' =
         [trace EXCEPT ![r] =
            Append(@, [call |-> "return", stream |-> "none", at |-> "L13"])]
    /\ pc' = [pc EXCEPT ![r] = "exited"]
    /\ UNCHANGED <<dataModel, failing, environ, stdin, files, argc, argv,
                   stdout>>

\* Faulty variant of Line13: the status tells whether all four lines were
\* written.
Line13ReportsFailure(r) ==
    /\ pc[r] = "L13"
    /\ exitStatus' =
         [exitStatus EXCEPT ![r] = IF Len(stdout[r]) < 4 THEN <<1>> ELSE <<0>>]
    /\ trace' =
         [trace EXCEPT ![r] =
            Append(@, [call |-> "return", stream |-> "none", at |-> "L13"])]
    /\ pc' = [pc EXCEPT ![r] = "exited"]
    /\ UNCHANGED <<dataModel, failing, environ, stdin, files, argc, argv,
                   stdout>>

\* return 0;
Line13(r) ==
    /\ pc[r] = "L13"
    /\ exitStatus' = [exitStatus EXCEPT ![r] = <<EXIT_SUCCESS>>]
    /\ trace' =
         [trace EXCEPT ![r] =
            Append(@, [call |-> "return", stream |-> "none", at |-> "L13"])]
    /\ pc' = [pc EXCEPT ![r] = "exited"]
    /\ UNCHANGED <<dataModel, failing, environ, stdin, files, argc, argv,
                   stdout>>

Init ==
    /\ dataModel \in DataModels
    /\ failing \in SUBSET {PrintfLines[i] : i \in 1..Len(PrintfLines)}
    /\ environ \in Environments
    /\ stdin \in StdinContents
    /\ files \in FileSystems
    /\ argv \in [Runs -> ArgVectors]
    /\ argc = [r \in Runs |-> Len(argv[r])]
    /\ pc = [r \in Runs |-> "L8"]
    /\ stdout = [r \in Runs |-> <<>>]
    /\ trace = [r \in Runs |-> <<>>]
    /\ exitStatus = [r \in Runs |-> <<>>]

Next ==
    \E r \in Runs :
        \/ Line8(r)
        \/ Line9(r)
        \/ Line10(r)
        \/ Line11(r)
        \/ Line13(r)

Spec ==
    Init /\ [][Next]_vars

\* A statement that is reached is executed: every call main makes returns.
Step(r) ==
    Line8(r) \/ Line9(r) \/ Line10(r) \/ Line11(r) \/ Line13(r)

\* A statement that is reached is executed: main has no loop and no wait,
\* and every call it makes returns.
FairSpec ==
    Spec /\ \A r \in Runs : WF_vars(Step(r))

(***************************************************************************)
(* What the specification says of the output, stated apart from the        *)
(* statements of main.                                                     *)
(***************************************************************************)

\* The labels of the four lines of section 6, in order, and the type each
\* one names.
SpecLabel == <<"sizeof(int)", "sizeof(int*)", "sizeof(uint8_t)", "sizeof(uint32_t)">>

SpecType == <<"int", "int*", "uint8_t", "uint32_t">>

\* The line "<label> = <n>" of section 6.
LineOf(k, n) ==
    SpecLabel[k] \o " = " \o ToString(n) \o "\n"

\* s is the k-th line of section 6 for some size <N>.
IsLine(s, k) ==
    \E n \in 1..16 : s = LineOf(k, n)

\* How far a run has come: 1 before the first write, 5 before the return,
\* 6 once it has exited.
Position(p) ==
    CASE p = "L8" -> 1
      [] p = "L9" -> 2
      [] p = "L10" -> 3
      [] p = "L11" -> 4
      [] p = "L13" -> 5
      [] p = "exited" -> 6

Attempted(r, k) ==
    k < Position(pc[r])

\* The writes run r has attempted that the output facility did not fail.
Delivered(r) ==
    SelectSeq(<<1, 2, 3, 4>>,
              LAMBDA k : Attempted(r, k) /\ PrintfLines[k] \notin failing)

Exited(r) ==
    pc[r] = "exited"

Range(s) ==
    {s[i] : i \in 1..Len(s)}

\* C1: for every argument vector, every execution of main terminates, and
\* the exit status it returns is the success code 0; none returns another
\* status or fails to reach the return.
C1_TerminatesWithSuccess ==
    <>[](\A r \in Runs : Exited(r) /\ exitStatus[r] = <<0>>)

C1_Witness ==
    \E r \in Runs :
        /\ Exited(r)
        /\ exitStatus[r] = <<0>>
        /\ argc[r] = 4
        /\ trace[r][Len(trace[r])].call = "return"

\* C2 as stated: for every input, the complete standard output of a run is
\* exactly four lines, labelled sizeof(int), sizeof(int*), sizeof(uint8_t),
\* sizeof(uint32_t) in that order, and nothing else.
C2_Original ==
    \A r \in Runs :
        Exited(r) =>
            /\ Len(stdout[r]) = 4
            /\ \A k \in 1..4 : IsLine(stdout[r][k], k)

\* C2 as amended: for every input and at every point of a run, standard
\* output holds exactly the lines of the writes attempted so far that did
\* not fail, in the fixed order sizeof(int), sizeof(int*), sizeof(uint8_t),
\* sizeof(uint32_t), each at most once and nothing else; a run in which no
\* write fails ends with exactly the four lines.
C2_LinesInFixedOrder ==
    \A r \in Runs :
        /\ Len(stdout[r]) = Len(Delivered(r))
        /\ \A i \in 1..Len(stdout[r]) :
             i <= Len(Delivered(r)) => IsLine(stdout[r][i], Delivered(r)[i])
        /\ (Exited(r) /\ failing = {}) =>
             /\ Len(stdout[r]) = 4
             /\ \A k \in 1..4 : IsLine(stdout[r][k], k)

C2_Witness ==
    \E r \in Runs :
        /\ Exited(r)
        /\ failing = {"L9"}
        /\ Len(stdout[r]) = 3
        /\ IsLine(stdout[r][1], 1)
        /\ IsLine(stdout[r][2], 3)
        /\ IsLine(stdout[r][3], 4)

\* C3: for every data model, the number on each line written is the
\* platform's size of the type the line names: the size of int on the
\* sizeof(int) line, of a pointer to int on the sizeof(int*) line, of
\* uint8_t on the sizeof(uint8_t) line, of uint32_t on the sizeof(uint32_t)
\* line.
C3_ValuesMatchLabels ==
    \A r \in Runs :
        \A i \in 1..Len(stdout[r]) :
            /\ i <= Len(Delivered(r))
            /\ LET k == Delivered(r)[i]
               IN  stdout[r][i] = LineOf(k, Sizeof(dataModel, SpecType[k]))

C3_Witness ==
    \E r \in Runs :
        /\ Exited(r)
        /\ dataModel = "LP32"
        /\ stdout[r] = <<"sizeof(int) = 2\n", "sizeof(int*) = 4\n",
                         "sizeof(uint8_t) = 1\n", "sizeof(uint32_t) = 4\n">>

\* The four lines of the 64-bit scenario of section 8.
ScenarioOutput ==
    <<"sizeof(int) = 4\n", "sizeof(int*) = 8\n", "sizeof(uint8_t) = 1\n",
      "sizeof(uint32_t) = 4\n">>

Common64(dm) ==
    Sizeof(dm, "int") = 4 /\ Sizeof(dm, "int*") = 8

C5_ArgumentsIgnored ==
    \A r1, r2 \in Runs :
        /\ pc[r1] = pc[r2] =>
             /\ stdout[r1] = stdout[r2]
             /\ exitStatus[r1] = exitStatus[r2]
        /\ Exited(r1) => exitStatus[r1] = <<0>>

C5_Witness ==
    /\ argv[1] = <<"prog">>
    /\ argv[2] = <<"prog", "a", "b", "c">>
    /\ Exited(1)
    /\ Exited(2)
    /\ Len(stdout[1]) = 4
    /\ stdout[1] = stdout[2]

\* The calls of main, in source order.
AllCalls ==
    <<[call |-> "printf", stream |-> "stdout", at |-> "L8"],
      [call |-> "printf", stream |-> "stdout", at |-> "L9"],
      [call |-> "printf", stream |-> "stdout", at |-> "L10"],
      [call |-> "printf", stream |-> "stdout", at |-> "L11"],
      [call |-> "return", stream |-> "none", at |-> "L13"]>>

\* C6: a failure of the output facility is neither detected nor handled:
\* after a failed write the run still attempts every remaining write in
\* order, enters no error state, and exits with the success status.
C6_FailuresIgnored ==
    \A r \in Runs :
        /\ pc[r] \in {"L8", "L9", "L10", "L11", "L13", "exited"}
        /\ Len(trace[r]) = Position(pc[r]) - 1
        /\ trace[r] = SubSeq(AllCalls, 1, Len(trace[r]))
        /\ exitStatus[r] = IF Exited(r) THEN <<0>> ELSE <<>>

C6_Witness ==
    \E r \in Runs :
        /\ Exited(r)
        /\ failing = {"L8", "L9", "L10", "L11"}
        /\ stdout[r] = <<>>
        /\ trace[r] = AllCalls
        /\ exitStatus[r] = <<0>>

\* C7: a run changes nothing but standard output: at every step standard
\* input, the environment, the file system and the argument vector are as
\* they were, and the step is one of the four writes to standard output or
\* the return.
C7_OnlyStdoutChanges ==
    [][/\ stdin' = stdin
       /\ environ' = environ
       /\ files' = files
       /\ argv' = argv
       /\ argc' = argc
       /\ \A r \in Runs :
            trace'[r] # trace[r] =>
                /\ Len(trace'[r]) = Len(trace[r]) + 1
                /\ SubSeq(trace'[r], 1, Len(trace[r])) = trace[r]
                /\ LET c == trace'[r][Len(trace'[r])]
                   IN  \/ c.call = "printf" /\ c.stream = "stdout"
                       \/ c.call = "return" /\ stdout'[r] = stdout[r]]_vars

C7_Witness ==
    \E r \in Runs :
        /\ Exited(r)
        /\ Len(stdout[r]) = 4
        /\ stdin # <<>>
        /\ environ # <<>>
        /\ argc[r] = 4

\* C8: when writes to standard output can fail, a run in which one fails
\* ends with fewer than four lines on standard output and still exits with
\* success: the exit status is the same however many of the four lines
\* were emitted.
C8_ShortOutputStillSuccess ==
    \A r \in Runs :
        Exited(r) =>
            /\ Len(stdout[r]) = 4 - Cardinality(failing)
            /\ failing # {} => Len(stdout[r]) < 4
            /\ exitStatus[r] = <<0>>

C8_Witness ==
    \E r \in Runs :
        /\ Exited(r)
        /\ failing = {"L10", "L11"}
        /\ Len(stdout[r]) = 2
        /\ exitStatus[r] = <<0>>

\* C9: across data models the uint8_t and uint32_t lines always read 1 and
\* 4; only the int and int* lines vary, and the int line is not 4 on every
\* data model.
C9_FixedWidthLinesConstant ==
    \A r \in Runs :
        /\ \A s \in Range(stdout[r]) :
             \/ IsLine(s, 1)
             \/ IsLine(s, 2)
             \/ s = "sizeof(uint8_t) = 1\n"
             \/ s = "sizeof(uint32_t) = 4\n"
        /\ (Attempted(r, 3) /\ "L10" \notin failing) =>
             "sizeof(uint8_t) = 1\n" \in Range(stdout[r])
        /\ (Attempted(r, 4) /\ "L11" \notin failing) =>
             "sizeof(uint32_t) = 4\n" \in Range(stdout[r])

C9_Witness ==
    \E r \in Runs :
        /\ Exited(r)
        /\ stdout[r] = <<"sizeof(int) = 8\n", "sizeof(int*) = 8\n",
                         "sizeof(uint8_t) = 1\n", "sizeof(uint32_t) = 4\n">>
====
